---- MODULE Spec2Model ----
(***************************************************************************)
(* Decision core of the scheduler: the time-period algebra of              *)
(* powerbase/core/time/base.py and the condition combinators of            *)
(* rocketry/core/condition/base.py.                                        *)
(*                                                                         *)
(* Instants are integers counting nanoseconds (pd.Timestamp.resolution).   *)
(* pd.Timestamp.min / max are scaled down to -MaxTimestamp / MaxTimestamp; *)
(* arithmetic that leaves that range raises OutOfBoundsDatetime.           *)
(***************************************************************************)
EXTENDS Integers, Sequences, FiniteSets, TLC

VARIABLES period, dt, op, result, answer,
          x, y, cop, cargs, obs

pvars == <<period, dt, op, result, answer>>
cvars == <<x, y, cop, cargs, obs>>
vars == <<period, dt, op, result, answer, x, y, cop, cargs, obs>>

(***************************************************************************)
(* Bounds of the model                                                     *)
(***************************************************************************)
MaxTimestamp == 4000
Grid == 1000
CycleUnit == 2000
MaxNodes == 4

(***************************************************************************)
(* Program constants                                                       *)
(***************************************************************************)
\* TimePeriod.resolution = pd.Timestamp.resolution: one nanosecond
resolution == 1
\* datetime.datetime.resolution: one microsecond, in nanoseconds
datetime_resolution == 1000

min == 0 - MaxTimestamp
max == MaxTimestamp

Abs(v) == IF v < 0 THEN 0 - v ELSE v
SetMax(S) == CHOOSE v \in S : \A w \in S : w <= v
SetMin(S) == CHOOSE v \in S : \A w \in S : v <= w
InBounds(v) == min <= v /\ v <= max

(***************************************************************************)
(* pd.Interval: a value is either an interval or the exception raised      *)
(* instead of one.                                                         *)
(***************************************************************************)
Raise(e) == [ok |-> FALSE, left |-> 0, right |-> 0, closed |-> "", err |-> e]

\* pd.Interval(left, right, closed): ValueError when left > right
Interval(l, r, c) ==
    IF ~InBounds(l) \/ ~InBounds(r) THEN Raise("OutOfBoundsDatetime")
    ELSE IF l > r THEN Raise("ValueError")
    ELSE [ok |-> TRUE, left |-> l, right |-> r, closed |-> c, err |-> ""]

\* pd.Interval's default: closed="right"
DefaultClosed == "right"

closed_left(iv) == iv.closed \in {"left", "both"}
closed_right(iv) == iv.closed \in {"right", "both"}

\* pd.Interval.__contains__
Interval_contains(iv, key) ==
    /\ (IF closed_left(iv) THEN iv.left <= key ELSE iv.left < key)
    /\ (IF closed_right(iv) THEN key <= iv.right ELSE key < iv.right)

\* pd.Interval.overlaps
Interval_overlaps(a, b) ==
    /\ (IF closed_left(a) /\ closed_right(b) THEN a.left <= b.right ELSE a.left < b.right)
    /\ (IF closed_left(b) /\ closed_right(a) THEN b.left <= a.right ELSE b.left < a.right)

(***************************************************************************)
(* Period objects.  One record shape for every class:                      *)
(*   type, past, future (TimeDelta), start, end (StaticInterval,           *)
(*   TimeInterval, start of TimeCycle), n (TimeCycle, Offsetted),          *)
(*   periods (All, Any, and the wrapped period of Offsetted),              *)
(*   reference (TimeDelta: {} when the attribute is not set).              *)
(***************************************************************************)
Period(t, past, future, start, end, n, periods, reference) ==
    [type |-> t, past |-> past, future |-> future, start |-> start, end |-> end,
     n |-> n, periods |-> periods, reference |-> reference]

\* TimeDelta.__init__: None -> 0, durations stored as absolute values
TimeDelta_init(past, future, reference) ==
    Period("TimeDelta", Abs(past), Abs(future), 0, 0, 0, <<>>, reference)

\* TimeCycle.__init__
TimeCycle_init(start, n) ==
    Period("TimeCycle", 0, 0, start, 0, n, <<>>, {})

\* A concrete TimeInterval: elements start..end of every cycle unit
TimeInterval_init(start, end) ==
    Period("TimeInterval", 0, 0, start, end, 0, <<>>, {})

\* StaticInterval.__init__: an absent bound ({}) is TimePeriod.min / max
StaticInterval_init(start, end) ==
    Period("StaticInterval", 0, 0,
           IF start = {} THEN min ELSE SetMin(start),
           IF end = {} THEN max ELSE SetMax(end),
           0, <<>>, {})

\* isinstance(arg, TimePeriod): every class of this module derives from TimePeriod
isinstance_TimePeriod(arg) ==
    arg.type \in {"TimeDelta", "TimeCycle", "TimeInterval", "StaticInterval",
                  "All", "Any", "Offsetted"}

\* the argument check of All.__init__ / Any.__init__: the error raised, "" if none
TimeAll_check(args) ==
    IF \E i \in 1..Len(args) : ~isinstance_TimePeriod(args[i]) THEN "TypeError" ELSE ""
TimeAny_check(args) ==
    IF \E i \in 1..Len(args) : ~isinstance_TimePeriod(args[i]) THEN "TypeError" ELSE ""

\* All.__init__ / Any.__init__ (periods), once the arguments passed the check
TimeAll_init(args) == Period("All", 0, 0, 0, 0, 0, args, {})
TimeAny_init(args) == Period("Any", 0, 0, 0, 0, 0, args, {})

\* Offsetted.__init__ (a TimeCycle argument raises NotImplementedError)
Offsetted_init(p, n) == Period("Offsetted", 0, 0, 0, 0, n, <<p>>, {})

(***************************************************************************)
(* TimeDelta                                                               *)
(***************************************************************************)
TimeDelta_rollback(p, t) ==
    LET start == t - Abs(p.past) IN
    Interval(start, t, DefaultClosed)

TimeDelta_rollforward(p, t) ==
    LET end == t + Abs(p.future) IN
    Interval(t, end, DefaultClosed)

(***************************************************************************)
(* TimeCycle.  offset, get_time_element and replace belong to the concrete *)
(* cycle classes: the cycle unit is CycleUnit instants long, the time      *)
(* element of an instant is its position in the unit, and replace moves an *)
(* instant to the configured start element of the unit it is in.           *)
(***************************************************************************)
offset == CycleUnit
get_time_element(t) == t % CycleUnit
replace(p, t) == t - (t % CycleUnit) + p.start

TimeCycle_rollback(p, t) ==
    LET dt_start0 == t - (p.n - 1) * offset
        dt_start1 == IF get_time_element(dt_start0) >= p.start
                     THEN dt_start0
                     ELSE dt_start0 - offset
        dt_start == replace(p, dt_start1)
    IN IF ~InBounds(dt_start0) \/ ~InBounds(dt_start1) THEN Raise("OutOfBoundsDatetime")
       ELSE Interval(dt_start, t, DefaultClosed)

\* a roll forward that never steps over the cycle boundary
TimeCycle_rollforward_nostep(p, t) ==
    LET dt_end0 == t + (p.n - 1) * offset
        dt_end == replace(p, dt_end0)
    IN IF ~InBounds(dt_end0) \/ ~InBounds(dt_end)
       THEN Raise("OutOfBoundsDatetime")
       ELSE Interval(t, dt_end - resolution, DefaultClosed)

\* a roll forward that steps over the boundary only when strictly past it
TimeCycle_rollforward_gt(p, t) ==
    LET dt_end0 == t + (p.n - 1) * offset
        dt_end1 == IF get_time_element(dt_end0) > p.start
                   THEN dt_end0 + offset
                   ELSE dt_end0
        dt_end == replace(p, dt_end1)
    IN IF ~InBounds(dt_end0) \/ ~InBounds(dt_end1) \/ ~InBounds(dt_end)
       THEN Raise("OutOfBoundsDatetime")
       ELSE Interval(t, dt_end - resolution, DefaultClosed)

TimeCycle_rollforward(p, t) ==
    LET dt_end0 == t + (p.n - 1) * offset
        dt_end1 == IF get_time_element(dt_end0) >= p.start
                   THEN dt_end0 + offset
                   ELSE dt_end0
        dt_end == replace(p, dt_end1)
    IN IF ~InBounds(dt_end0) \/ ~InBounds(dt_end1) \/ ~InBounds(dt_end)
       THEN Raise("OutOfBoundsDatetime")
       ELSE Interval(t, dt_end - resolution, DefaultClosed)

(***************************************************************************)
(* TimeInterval.  __contains__, rollstart, next_end, rollend, prev_start   *)
(* are abstract here; the concrete interval is the element range           *)
(* start..end of every cycle unit.                                         *)
(***************************************************************************)
TimeInterval_contains(p, t) ==
    p.start <= get_time_element(t) /\ get_time_element(t) <= p.end

\* the next instant after t whose time element is e
NextAt(e, t) == IF get_time_element(t) < e
                THEN t - get_time_element(t) + e
                ELSE t - get_time_element(t) + offset + e
\* the last instant before t whose time element is e
PrevAt(e, t) == IF get_time_element(t) > e
                THEN t - get_time_element(t) + e
                ELSE t - get_time_element(t) - offset + e

rollstart(p, t) == IF TimeInterval_contains(p, t) THEN t ELSE NextAt(p.start, t)
next_end(p, t) == IF get_time_element(t) = p.end THEN t ELSE NextAt(p.end, t)
rollend(p, t) == IF TimeInterval_contains(p, t) THEN t ELSE PrevAt(p.end, t)
prev_start(p, t) == IF get_time_element(t) = p.start THEN t ELSE PrevAt(p.start, t)

TimeInterval_rollforward(p, t) ==
    LET start == rollstart(p, t)
        end == next_end(p, t)
    IN Interval(start, end, "both")

TimeInterval_rollback(p, t) ==
    LET end == rollend(p, t)
        start == prev_start(p, t)
    IN Interval(start, end, "both")

(***************************************************************************)
(* StaticInterval                                                          *)
(***************************************************************************)
StaticInterval_rollback(p, t) ==
    IF p.start > t
    THEN Interval(min, min, DefaultClosed)
    ELSE Interval(p.start, t, DefaultClosed)

\* a roll forward that takes an instant on the end for elapsed
StaticInterval_rollforward_le(p, t) ==
    IF p.end <= t
    THEN Interval(max, max, DefaultClosed)
    ELSE Interval(t, p.end, DefaultClosed)

StaticInterval_rollforward(p, t) ==
    IF p.end < t
    THEN Interval(max, max, DefaultClosed)
    ELSE Interval(t, p.end, DefaultClosed)

(***************************************************************************)
(* Composites                                                              *)
(***************************************************************************)
\* the first exception raised while the list comprehension ran, if any
FirstError(ivs) ==
    ivs[SetMin({i \in 1..Len(ivs) : ~ivs[i].ok})]
AllOk(ivs) == \A i \in 1..Len(ivs) : ivs[i].ok

all_overlap(times) ==
    \A i \in 1..Len(times) : \A j \in (i + 1)..Len(times) :
        Interval_overlaps(times[i], times[j])

starts(times) == {times[i].left : i \in 1..Len(times)}
ends(times) == {times[i].right : i \in 1..Len(times)}

\* the span of the intervals instead of their common part
get_overlapping_span(times) ==
    IF Len(times) = 0 THEN Raise("ValueError")
    ELSE Interval(SetMin(starts(times)), SetMax(ends(times)), DefaultClosed)

\* max() / min() of an empty list raise ValueError
get_overlapping(times) ==
    IF Len(times) = 0 THEN Raise("ValueError")
    ELSE Interval(SetMax(starts(times)), SetMin(ends(times)), DefaultClosed)

\* seed of the retry of All.rollforward / All.rollback
All_forward_seed(intervals) == SetMin(ends(intervals)) + datetime_resolution
All_back_seed(intervals) == SetMax(starts(intervals)) - datetime_resolution

\* seed of the look-ahead of Any.rollforward / Any.rollback
Any_forward_seed(end) == end + datetime_resolution
Any_back_seed(start) == start - datetime_resolution

\* start / end of Any.rollforward and Any.rollback before the extension
Any_start(intervals) == SetMin(starts(intervals))
\* an end that is the earliest right edge
Any_end_min(intervals) == SetMin(ends(intervals))
Any_end(intervals) == SetMax(ends(intervals))

RECURSIVE rollforward(_, _)
RECURSIVE rollback(_, _)

All_rollforward(p, t) ==
    LET intervals == [i \in 1..Len(p.periods) |-> rollforward(p.periods[i], t)] IN
    IF ~AllOk(intervals) THEN FirstError(intervals)
    ELSE IF all_overlap(intervals) THEN get_overlapping(intervals)
    ELSE IF ~InBounds(All_forward_seed(intervals)) THEN Raise("OutOfBoundsDatetime")
    ELSE rollforward(p, All_forward_seed(intervals))

All_rollback(p, t) ==
    LET intervals == [i \in 1..Len(p.periods) |-> rollback(p.periods[i], t)] IN
    IF ~AllOk(intervals) THEN FirstError(intervals)
    ELSE IF all_overlap(intervals) THEN get_overlapping(intervals)
    ELSE IF ~InBounds(All_back_seed(intervals)) THEN Raise("OutOfBoundsDatetime")
    ELSE rollback(p, All_back_seed(intervals))

Any_rollforward(p, t) ==
    LET intervals == [i \in 1..Len(p.periods) |-> rollforward(p.periods[i], t)] IN
    IF ~AllOk(intervals) THEN FirstError(intervals)
    ELSE IF Len(intervals) = 0 THEN Raise("ValueError")
    ELSE
    LET start == Any_start(intervals)
        end == Any_end(intervals)
        seed == Any_forward_seed(end)
    IN IF ~InBounds(seed) THEN Raise("OutOfBoundsDatetime")
       ELSE
       LET next_intervals == [i \in 1..Len(p.periods) |-> rollforward(p.periods[i], seed)]
           span == Interval(start, end, DefaultClosed)
       IN IF ~AllOk(next_intervals) THEN FirstError(next_intervals)
          ELSE IF \E i \in 1..Len(next_intervals) : Interval_overlaps(span, next_intervals[i])
          THEN LET extended == rollforward(p, seed) IN
               IF ~extended.ok THEN extended
               ELSE Interval(start, extended.right, DefaultClosed)
          ELSE span

Any_rollback(p, t) ==
    LET intervals == [i \in 1..Len(p.periods) |-> rollback(p.periods[i], t)] IN
    IF ~AllOk(intervals) THEN FirstError(intervals)
    ELSE IF Len(intervals) = 0 THEN Raise("ValueError")
    ELSE
    LET start == Any_start(intervals)
        end == Any_end(intervals)
        seed == Any_back_seed(start)
    IN IF ~InBounds(seed) THEN Raise("OutOfBoundsDatetime")
       ELSE
       LET next_intervals == [i \in 1..Len(p.periods) |-> rollback(p.periods[i], seed)]
           span == Interval(start, end, DefaultClosed)
       IN IF ~AllOk(next_intervals) THEN FirstError(next_intervals)
          ELSE IF \E i \in 1..Len(next_intervals) : Interval_overlaps(span, next_intervals[i])
          THEN LET extended == rollback(p, seed) IN
               IF ~extended.ok THEN extended
               ELSE Interval(extended.left, end, DefaultClosed)
          ELSE span

Offsetted_rollback(p, t) ==
    LET interval == rollback(p.periods[1], t) IN
    IF ~interval.ok THEN interval
    ELSE LET new_dt == interval.left - resolution IN
         IF ~InBounds(new_dt) THEN Raise("OutOfBoundsDatetime")
         ELSE rollback(p.periods[1], new_dt)

Offsetted_rollforward(p, t) ==
    LET interval == rollforward(p.periods[1], t) IN
    IF ~interval.ok THEN interval
    ELSE LET new_dt == interval.right + resolution IN
         IF ~InBounds(new_dt) THEN Raise("OutOfBoundsDatetime")
         ELSE rollforward(p.periods[1], new_dt)

\* method dispatch on the class of the period
rollforward(p, t) ==
    CASE p.type = "TimeDelta" -> TimeDelta_rollforward(p, t)
      [] p.type = "TimeCycle" -> TimeCycle_rollforward(p, t)
      [] p.type = "TimeInterval" -> TimeInterval_rollforward(p, t)
      [] p.type = "StaticInterval" -> StaticInterval_rollforward(p, t)
      [] p.type = "All" -> All_rollforward(p, t)
      [] p.type = "Any" -> Any_rollforward(p, t)
      [] p.type = "Offsetted" -> Offsetted_rollforward(p, t)

rollback(p, t) ==
    CASE p.type = "TimeDelta" -> TimeDelta_rollback(p, t)
      [] p.type = "TimeCycle" -> TimeCycle_rollback(p, t)
      [] p.type = "TimeInterval" -> TimeInterval_rollback(p, t)
      [] p.type = "StaticInterval" -> StaticInterval_rollback(p, t)
      [] p.type = "All" -> All_rollback(p, t)
      [] p.type = "Any" -> Any_rollback(p, t)
      [] p.type = "Offsetted" -> Offsetted_rollback(p, t)

(***************************************************************************)
(* TimePeriod.next / prev / __contains__                                   *)
(***************************************************************************)
\* dt.right and dt.left are read from the instant dt, which has no such
\* attribute: the re-roll raises AttributeError
next(p, t) ==
    LET interv == rollforward(p, t) IN
    IF ~interv.ok THEN interv
    ELSE IF Interval_contains(interv, t) THEN Raise("AttributeError")
    ELSE interv

prev(p, t) ==
    LET interv == rollback(p, t) IN
    IF ~interv.ok THEN interv
    ELSE IF Interval_contains(interv, t) THEN Raise("AttributeError")
    ELSE interv

TimePeriod_contains(p, other) ==
    LET interval == rollforward(p, other) IN
    IF ~interval.ok THEN interval.err
    ELSE IF Interval_contains(interval, other) THEN "True" ELSE "False"

\* TimeDelta.__contains__ with the window open at its start
TimeDelta_contains_open(p, t) ==
    IF p.reference = {} THEN "AttributeError"
    ELSE LET ref == SetMin(p.reference)
             start == ref - Abs(p.past)
             end == ref + Abs(p.future)
         IN IF ~InBounds(start) \/ ~InBounds(end) THEN "OutOfBoundsDatetime"
            ELSE IF start < t /\ t <= end THEN "True" ELSE "False"

\* TimeDelta.__contains__ that anchors at instant 0 when no reference is set
TimeDelta_contains_default(p, t) ==
    LET ref == IF p.reference = {} THEN 0 ELSE SetMin(p.reference)
        start == ref - Abs(p.past)
        end == ref + Abs(p.future)
    IN IF ~InBounds(start) \/ ~InBounds(end) THEN "OutOfBoundsDatetime"
       ELSE IF start <= t /\ t <= end THEN "True" ELSE "False"

TimeDelta_contains(p, t) ==
    IF p.reference = {} THEN "AttributeError"
    ELSE LET ref == SetMin(p.reference)
             start == ref - Abs(p.past)
             end == ref + Abs(p.future)
         IN IF ~InBounds(start) \/ ~InBounds(end) THEN "OutOfBoundsDatetime"
            ELSE IF start <= t /\ t <= end THEN "True" ELSE "False"

contains(p, t) ==
    CASE p.type = "TimeDelta" -> TimeDelta_contains(p, t)
      [] p.type = "TimeInterval" ->
            IF TimeInterval_contains(p, t) THEN "True" ELSE "False"
      [] OTHER -> TimePeriod_contains(p, t)

(***************************************************************************)
(* Conditions.  One record shape for every class: type, cls (the class of  *)
(* a leaf condition), id (the state function a leaf wraps), subconditions  *)
(* (All, Any; for Not the one wrapped condition).                          *)
(***************************************************************************)
Cond(t, cls, id, subs) == [type |-> t, cls |-> cls, id |-> id, subconditions |-> subs]

Leaf(cls, id) == Cond("Leaf", cls, id, <<>>)
AlwaysTrue == Cond("AlwaysTrue", "AlwaysTrue", 0, <<>>)
AlwaysFalse == Cond("AlwaysFalse", "AlwaysFalse", 0, <<>>)

\* a constructor that keeps its arguments as they are
NoFlatten(self_type, conditions) == conditions

RECURSIVE Flatten(_, _)
\* the loop of All.__init__ / Any.__init__: a condition of the same class
\* contributes its subconditions, any other condition itself
Flatten(self_type, conditions) ==
    IF conditions = <<>> THEN <<>>
    ELSE LET cond == Head(conditions)
             conds == IF cond.type = self_type THEN cond.subconditions ELSE <<cond>>
         IN conds \o Flatten(self_type, Tail(conditions))

Any_init(conditions) == Cond("Any", "Any", 0, Flatten("Any", conditions))
All_init(conditions) == Cond("All", "All", 0, Flatten("All", conditions))

\* Not.__init__ stores the condition it is given
Not_init(condition) == Cond("Not", "Not", 0, <<condition>>)

\* BaseCondition.__invert__ and its override Not.__invert__
BaseCondition_invert(self) == Not_init(self)
\* an override that wraps once more, as BaseCondition.__invert__ does
Not_invert_wrap(self) == Not_init(self)
Not_invert(self) == self.subconditions[1]
invert(self) == IF self.type = "Not" THEN Not_invert(self) ELSE BaseCondition_invert(self)

RECURSIVE Cond_eq(_, _)
\* self == other: _ConditionContainer.__eq__, Not.__eq__, BaseCondition.__eq__
Cond_eq(self, other) ==
    IF self.type \in {"All", "Any", "Not"}
    THEN /\ other.type = self.type
         /\ Len(self.subconditions) = Len(other.subconditions)
         /\ \A i \in 1..Len(self.subconditions) :
                Cond_eq(self.subconditions[i], other.subconditions[i])
    ELSE other.type = self.type /\ other.cls = self.cls

(***************************************************************************)
(* observe.  kwargs gives what the state function of each leaf returns; an *)
(* observation is the value returned, the state functions invoked in order *)
(* (calls) and the number of direct subconditions observed (n).            *)
(***************************************************************************)
Observation(val, calls, n) == [val |-> val, calls |-> calls, n |-> n]

RECURSIVE observe(_, _)
RECURSIVE AnyLoop(_, _, _, _)
RECURSIVE AllLoop(_, _, _, _)
RECURSIVE EveryLoop(_, _, _, _, _)

\* for subcond in self.subconditions: if subcond.observe(**kwargs): return True
AnyLoop(subs, i, kwargs, calls) ==
    IF i > Len(subs) THEN Observation(FALSE, calls, Len(subs))
    ELSE LET r == observe(subs[i], kwargs) IN
         IF r.val THEN Observation(TRUE, calls \o r.calls, i)
         ELSE AnyLoop(subs, i + 1, kwargs, calls \o r.calls)

\* for subcond in self.subconditions: if not subcond.observe(**kwargs): return False
AllLoop(subs, i, kwargs, calls) ==
    IF i > Len(subs) THEN Observation(TRUE, calls, Len(subs))
    ELSE LET r == observe(subs[i], kwargs) IN
         IF ~r.val THEN Observation(FALSE, calls \o r.calls, i)
         ELSE AllLoop(subs, i + 1, kwargs, calls \o r.calls)

\* a loop that observes every subcondition before it answers
EveryLoop(subs, i, kwargs, calls, acc) ==
    IF i > Len(subs) THEN Observation(acc.val, calls, Len(subs))
    ELSE LET r == observe(subs[i], kwargs) IN
         EveryLoop(subs, i + 1, kwargs, calls \o r.calls,
                   [val |-> IF acc.all THEN acc.val /\ r.val ELSE acc.val \/ r.val,
                    all |-> acc.all])

Any_observe_eager(self, kwargs) ==
    EveryLoop(self.subconditions, 1, kwargs, <<>>, [val |-> FALSE, all |-> FALSE])
Any_observe(self, kwargs) == AnyLoop(self.subconditions, 1, kwargs, <<>>)

All_observe_eager(self, kwargs) ==
    EveryLoop(self.subconditions, 1, kwargs, <<>>, [val |-> TRUE, all |-> TRUE])
All_observe(self, kwargs) == AllLoop(self.subconditions, 1, kwargs, <<>>)

Not_observe(self, kwargs) ==
    LET r == observe(self.subconditions[1], kwargs) IN
    Observation(~r.val, r.calls, 1)

\* BaseCondition.observe: call get_state
BaseCondition_observe(self, kwargs) == Observation(kwargs[self.id], <<self.id>>, 0)

observe(self, kwargs) ==
    CASE self.type = "All" -> All_observe(self, kwargs)
      [] self.type = "Any" -> Any_observe(self, kwargs)
      [] self.type = "Not" -> Not_observe(self, kwargs)
      [] self.type = "AlwaysTrue" -> Observation(TRUE, <<>>, 0)
      [] self.type = "AlwaysFalse" -> Observation(FALSE, <<>>, 0)
      [] OTHER -> BaseCondition_observe(self, kwargs)

RECURSIVE Nodes(_)
RECURSIVE NodesOf(_)
NodesOf(subs) == IF subs = <<>> THEN 0 ELSE Nodes(Head(subs)) + NodesOf(Tail(subs))
Nodes(c) == 1 + NodesOf(c.subconditions)

(***************************************************************************)
(* Inputs of the period operations                                         *)
(***************************************************************************)
Instants == {t \in min..max : (t % Grid) \in {0, 1, Grid - 1}}

Durations == {0 - Grid, 0, resolution, Grid}
References == {{}, {0}, {1}}
Deltas == {TimeDelta_init(past, future, ref) :
              past \in Durations, future \in Durations, ref \in References}

Elements == {0, 1, Grid}
Cycles == {TimeCycle_init(start, n) : start \in Elements, n \in {1, 2}}

TimeIntervals == {TimeInterval_init(se[1], se[2]) :
                     se \in {<<0, Grid - 1>>, <<0, CycleUnit - 1>>, <<Grid, CycleUnit - 1>>,
                            <<Grid + 1, CycleUnit - 1>>}}

Statics == {StaticInterval_init(start, end) :
               start \in {{}, {0 - Grid}, {Grid}}, end \in {{}, {0}, {Grid}}}

\* the periods composites are built from
Members ==
    {TimeDelta_init(past, future, {}) : past \in {0, Grid}, future \in {0, Grid}}
    \cup {TimeCycle_init(start, n) : start \in {0, Grid}, n \in {1, 2}}
    \cup TimeIntervals
    \cup {StaticInterval_init(start, end) : start \in {{}, {Grid}}, end \in {{}, {Grid}}}

MemberLists == {<<p>> : p \in Members} \cup {<<p, q>> : p \in Members, q \in Members}

Composites ==
    {TimeAll_init(ps) : ps \in MemberLists} \cup {TimeAny_init(ps) : ps \in MemberLists}

Offsetteds == {Offsetted_init(p, 1) : p \in {q \in Members : q.type # "TimeCycle"}}

Periods == Deltas \cup Cycles \cup TimeIntervals \cup Statics \cup Composites \cup Offsetteds

NoInterval == Raise("")

\* an argument that is not a TimePeriod (a string, a number, a condition)
NotAPeriod == Period("object", 0, 0, 0, 0, 0, <<>>, {})

\* argument lists a caller passes to All(...) / Any(...)
Arguments == {TimeCycle_init(0, 1), StaticInterval_init({}, {Grid})}
ArgumentLists ==
    {<<>>, <<NotAPeriod>>}
    \cup {<<p>> : p \in Arguments}
    \cup {<<p, NotAPeriod>> : p \in Arguments}
    \cup {<<NotAPeriod, p>> : p \in Arguments}
    \cup {<<p, q>> : p \in Arguments, q \in Arguments}

(***************************************************************************)
(* Inputs of the condition operations                                      *)
(***************************************************************************)
LeafIds == {1, 2, 3}
\* leaves 1 and 2 are instances of one condition class, leaf 3 of another
LeafClass(id) == IF id = 3 THEN "B" ELSE "A"
Atoms == {Leaf(LeafClass(id), id) : id \in LeafIds} \cup {AlwaysTrue, AlwaysFalse}
Contexts == [LeafIds -> BOOLEAN]
NoObservation == [val |-> FALSE, calls |-> <<>>, n |-> 0, kwargs |-> <<>>]

(***************************************************************************)
(* Period operations: the caller holds a period and an instant and calls   *)
(* one of the operations of TimePeriod on them.                            *)
(***************************************************************************)
CondIdle ==
    /\ x = AlwaysTrue /\ y = AlwaysTrue /\ cop = "none" /\ cargs = <<>>
    /\ obs = NoObservation

Init ==
    /\ period \in Periods
    /\ dt \in Instants
    /\ op = "none"
    /\ result = NoInterval
    /\ answer = ""
    /\ CondIdle

RollForward ==
    /\ op' = "rollforward"
    /\ result' = rollforward(period, dt)
    /\ answer' = ""
    /\ UNCHANGED <<period, dt, cvars>>

RollBack ==
    /\ op' = "rollback"
    /\ result' = rollback(period, dt)
    /\ answer' = ""
    /\ UNCHANGED <<period, dt, cvars>>

CallNext ==
    /\ op' = "next"
    /\ result' = next(period, dt)
    /\ answer' = ""
    /\ UNCHANGED <<period, dt, cvars>>

CallPrev ==
    /\ op' = "prev"
    /\ result' = prev(period, dt)
    /\ answer' = ""
    /\ UNCHANGED <<period, dt, cvars>>

Contains ==
    /\ op' = "contains"
    /\ result' = NoInterval
    /\ answer' = contains(period, dt)
    /\ UNCHANGED <<period, dt, cvars>>

\* All(*args): the caller's period becomes the new composite, or the
\* constructor raises and the caller keeps the period it had
NewAll ==
    \E args \in ArgumentLists :
        /\ op' = "All.__init__"
        /\ result' = NoInterval
        /\ answer' = IF TimeAll_check(args) = "" THEN "constructed" ELSE TimeAll_check(args)
        /\ period' = IF TimeAll_check(args) = "" THEN TimeAll_init(args) ELSE period
        /\ UNCHANGED <<dt, cvars>>

\* Any(*args)
NewAny ==
    \E args \in ArgumentLists :
        /\ op' = "Any.__init__"
        /\ result' = NoInterval
        /\ answer' = IF TimeAny_check(args) = "" THEN "constructed" ELSE TimeAny_check(args)
        /\ period' = IF TimeAny_check(args) = "" THEN TimeAny_init(args) ELSE period
        /\ UNCHANGED <<dt, cvars>>

Next == RollForward \/ RollBack \/ CallNext \/ CallPrev \/ Contains \/ NewAll \/ NewAny

Spec == Init /\ [][Next]_vars

(***************************************************************************)
(* Condition operations: the caller builds conditions in x, with y as the  *)
(* other operand, and observes x.                                          *)
(***************************************************************************)
PeriodIdle ==
    /\ period = TimeDelta_init(0, 0, {}) /\ dt = 0 /\ op = "none"
    /\ result = NoInterval /\ answer = ""

CondInit ==
    /\ x \in Atoms
    /\ y \in Atoms
    /\ cop = "none"
    /\ cargs = <<>>
    /\ obs = NoObservation
    /\ PeriodIdle

ArgLists == {<<x>>, <<x, y>>, <<y, x>>}

\* y = <an atomic condition>
NewLeaf ==
    /\ \E c \in Atoms : y' = c
    /\ cop' = "leaf"
    /\ cargs' = <<>>
    /\ obs' = NoObservation
    /\ UNCHANGED <<x, pvars>>

\* y = x
Keep ==
    /\ Nodes(x) < MaxNodes - 1
    /\ y' = x
    /\ cop' = "keep"
    /\ cargs' = <<>>
    /\ obs' = NoObservation
    /\ UNCHANGED <<x, pvars>>

\* x = All(*args)
MakeAll ==
    /\ \E args \in ArgLists :
        /\ Nodes(All_init(args)) <= MaxNodes
        /\ x' = All_init(args)
        /\ cargs' = args
    /\ cop' = "All"
    /\ obs' = NoObservation
    /\ UNCHANGED <<y, pvars>>

\* x = Any(*args)
MakeAny ==
    /\ \E args \in ArgLists :
        /\ Nodes(Any_init(args)) <= MaxNodes
        /\ x' = Any_init(args)
        /\ cargs' = args
    /\ cop' = "Any"
    /\ obs' = NoObservation
    /\ UNCHANGED <<y, pvars>>

\* x = Not(x)
MakeNot ==
    /\ 1 + Nodes(x) <= MaxNodes
    /\ x' = Not_init(x)
    /\ cargs' = <<x>>
    /\ cop' = "Not"
    /\ obs' = NoObservation
    /\ UNCHANGED <<y, pvars>>

\* x = ~x
Invert ==
    /\ Nodes(invert(x)) <= MaxNodes
    /\ x' = invert(x)
    /\ cargs' = <<x>>
    /\ cop' = "invert"
    /\ obs' = NoObservation
    /\ UNCHANGED <<y, pvars>>

\* x.observe(**kwargs)
Observe ==
    /\ \E kwargs \in Contexts :
        LET r == observe(x, kwargs) IN
        obs' = [val |-> r.val, calls |-> r.calls, n |-> r.n, kwargs |-> kwargs]
    /\ cop' = "observe"
    /\ cargs' = <<>>
    /\ UNCHANGED <<x, y, pvars>>

CondNext == NewLeaf \/ Keep \/ MakeAll \/ MakeAny \/ MakeNot \/ Invert \/ Observe

CondSpec == CondInit /\ [][CondNext]_vars

(***************************************************************************)
(* Properties of observe                                                   *)
(***************************************************************************)
RECURSIVE CallsUpTo(_, _, _)
\* the state functions invoked by observing subs[1..k] one after the other
CallsUpTo(subs, k, kwargs) ==
    IF k = 0 THEN <<>>
    ELSE CallsUpTo(subs, k - 1, kwargs) \o observe(subs[k], kwargs).calls

\* the position of the first subcondition of x that observes to v, or
\* Len(subs) when there is none
FirstWith(v) ==
    LET subs == x.subconditions
        hits == {i \in 1..Len(subs) : observe(subs[i], obs.kwargs).val = v}
    IN IF hits = {} THEN Len(subs) ELSE SetMin(hits)
NoneWith(v) ==
    \A i \in 1..Len(x.subconditions) : observe(x.subconditions[i], obs.kwargs).val # v

\* C1: All.observe observes its subconditions in order and stops at the first
\* one that is false: exactly the subconditions up to the first false one are
\* observed, no state function of a later one is invoked, and the result is
\* true only if every subcondition was observed and was true.
C1_AllShortCircuit ==
    (cop = "observe" /\ x.type = "All") =>
        /\ obs.n = FirstWith(FALSE)
        /\ obs.calls = CallsUpTo(x.subconditions, FirstWith(FALSE), obs.kwargs)
        /\ obs.val = NoneWith(FALSE)
        /\ obs.val => obs.n = Len(x.subconditions)

C1_Witness ==
    /\ cop = "observe" /\ x.type = "All"
    /\ Len(x.subconditions) = 3
    /\ obs.n = 1 /\ ~obs.val
    /\ x.subconditions[1].type = "Leaf"
    /\ x.subconditions[2].type = "Leaf"
    /\ obs.calls = <<x.subconditions[1].id>>
    /\ x.subconditions[2].id # x.subconditions[1].id

\* C2: Any.observe observes its subconditions in order and stops at the first
\* one that is true: exactly the subconditions up to the first true one are
\* observed, and the result is false only if every subcondition was observed
\* and was false.
C2_AnyShortCircuit ==
    (cop = "observe" /\ x.type = "Any") =>
        /\ obs.n = FirstWith(TRUE)
        /\ obs.calls = CallsUpTo(x.subconditions, FirstWith(TRUE), obs.kwargs)
        /\ obs.val = ~NoneWith(TRUE)
        /\ ~obs.val => obs.n = Len(x.subconditions)

C2_Witness ==
    /\ cop = "observe" /\ x.type = "Any"
    /\ Len(x.subconditions) = 3
    /\ obs.n = 1 /\ obs.val
    /\ x.subconditions[1].type = "Leaf"
    /\ x.subconditions[2].type = "Leaf"
    /\ obs.calls = <<x.subconditions[1].id>>
    /\ x.subconditions[2].id # x.subconditions[1].id

(***************************************************************************)
(* Properties of the constructors                                          *)
(***************************************************************************)
RECURSIVE Flat(_)
\* no All directly under an All and no Any directly under an Any, anywhere
Flat(c) ==
    \A i \in 1..Len(c.subconditions) :
        /\ c.type \in {"All", "Any"} => c.subconditions[i].type # c.type
        /\ Flat(c.subconditions[i])

Build(type, args) == IF type = "All" THEN All_init(args) ELSE Any_init(args)

\* C3: every condition built has no All directly under an All and no Any
\* directly under an Any; and All(All(a, b), c) has the subconditions a, b, c,
\* equals All(a, b, c) and observes as All(a, b, c) does, state function by
\* state function, in every context (the same for Any).
C3_Flattening ==
    /\ Flat(x)
    /\ Flat(y)
    /\ (cop \in {"All", "Any"} /\ Len(cargs) = 2
            /\ cargs[1].type = cop /\ cargs[2].type # cop) =>
        LET abc == cargs[1].subconditions \o <<cargs[2]>>
            direct == Build(cop, abc)
        IN /\ x.subconditions = abc
           /\ Cond_eq(x, direct)
           /\ Cond_eq(direct, x)
           /\ \A kwargs \in Contexts : observe(x, kwargs) = observe(direct, kwargs)

C3_Witness ==
    /\ cop = "All" /\ Len(cargs) = 2
    /\ cargs[1].type = "All" /\ Len(cargs[1].subconditions) = 2
    /\ cargs[2].type = "Leaf"
    /\ Len(x.subconditions) = 3

FirstRoll == IF op = "next" THEN rollforward(period, dt) ELSE rollback(period, dt)
Reseed == IF op = "next" THEN FirstRoll.right + resolution ELSE FirstRoll.left - resolution
ReRoll == IF op = "next" THEN rollforward(period, Reseed) ELSE rollback(period, Reseed)

\* C5: next(t) and prev(t) return an interval that does not contain t: when
\* the first roll contains t they roll again from one resolution past its
\* right edge (before its left edge) and return that occurrence.
C5_NextPrevExcludeCurrent ==
    (op \in {"next", "prev"} /\ FirstRoll.ok) =>
        /\ ~Interval_contains(FirstRoll, dt) => result = FirstRoll
        /\ (Interval_contains(FirstRoll, dt) /\ InBounds(Reseed)) => result = ReRoll
        /\ result.ok => ~Interval_contains(result, dt)

\* a non-empty composite, built from non-empty composites
RECURSIVE Valid(_)
Valid(p) ==
    /\ p.type \in {"All", "Any"} => Len(p.periods) > 0
    /\ \A i \in 1..Len(p.periods) : Valid(p.periods[i])

\* C6: rollforward never builds an interval whose left edge is after its
\* right edge, and the interval a TimeCycle returns does not end before the
\* instant rolled from.
C6_LeftBeforeRight ==
    (op = "rollforward" /\ Valid(period)) =>
        /\ result.err # "ValueError"
        /\ result.ok => result.left <= result.right
        /\ (result.ok /\ period.type = "TimeCycle") => dt <= result.right

C6_Witness ==
    /\ op = "rollforward" /\ result.ok
    /\ period.type = "All" /\ Len(period.periods) = 2
    /\ period.periods[1].type = "TimeCycle" /\ period.periods[1].n = 2
    /\ period.periods[2].type = "TimeInterval"
    /\ result.left > dt
    /\ result.left < result.right

\* C7: every instant is in a TimeCycle.
C7_CycleContainsEveryInstant ==
    (op = "contains" /\ period.type = "TimeCycle") => answer = "True"

\* C8: the interval a rollforward or rollback returns is closed at both
\* ends: its left edge and its right edge are in it.
C8_ClosedBothEnds ==
    (op \in {"rollforward", "rollback"} /\ result.ok) =>
        /\ Interval_contains(result, result.left)
        /\ Interval_contains(result, result.right)

\* the intervals of the members of a composite, rolled forward from dt
MemberRolls == [i \in 1..Len(period.periods) |-> rollforward(period.periods[i], dt)]

C10_StaticSentinel ==
    period.type = "StaticInterval" =>
        /\ op = "rollforward" =>
              /\ result.ok
              /\ IF period.end < dt
                 THEN result.left = max /\ result.right = max
                 ELSE result.left = dt /\ result.right = period.end
        /\ op = "rollback" =>
              /\ result.ok
              /\ IF period.start > dt
                 THEN result.left = min /\ result.right = min
                 ELSE result.left = period.start /\ result.right = dt
        /\ (op = "rollforward" /\ period = StaticInterval_init({period.start}, {})) =>
              result.left = dt /\ result.right = max
        /\ (op = "rollback" /\ period = StaticInterval_init({}, {period.end})) =>
              result.left = min /\ result.right = dt

C10_Witness ==
    /\ period.type = "StaticInterval" /\ op = "rollforward"
    /\ period.end < dt /\ period.end > min
    /\ result.ok /\ result.left = max /\ result.right = max

(***************************************************************************)
(* C11: a TimeDelta with a reference instant T contains the instant p      *)
(* exactly when T - past <= p <= T + future, both ends included (so T -    *)
(* past is contained and T - past - resolution is not), and a TimeDelta    *)
(* configured with the negated durations answers the same.                 *)
(***************************************************************************)
C11_DeltaContainment ==
    (op = "contains" /\ period.type = "TimeDelta" /\ period.reference # {}) =>
        LET T == SetMin(period.reference)
            negated == TimeDelta_init(0 - period.past, 0 - period.future, period.reference)
        IN /\ answer \in {"True", "False"}
           /\ (answer = "True") <=> (T - period.past <= dt /\ dt <= T + period.future)
           /\ contains(negated, dt) = answer
           /\ contains(period, T - period.past) = "True"
           /\ contains(period, T - period.past - resolution) = "False"

\* the probe at the start of a window that ends at the reference is answered true
C11_Witness ==
    /\ op = "contains" /\ period.type = "TimeDelta" /\ period.reference # {}
    /\ period.past = Grid /\ period.future = 0
    /\ dt = SetMin(period.reference) - period.past
    /\ answer = "True"

(***************************************************************************)
(* C12: the containment test of a TimeDelta that has no reference instant  *)
(* raises the missing-reference error (an AttributeError) at every probed  *)
(* instant and never answers true or false.                                *)
(***************************************************************************)
C12_MissingReferenceRaises ==
    (op = "contains" /\ period.type = "TimeDelta" /\ period.reference = {}) =>
        /\ answer = "AttributeError"
        /\ answer \notin {"True", "False"}

\* a probe inside the window the durations would give around instant 0
C12_Witness ==
    /\ op = "contains" /\ period.type = "TimeDelta" /\ period.reference = {}
    /\ period.past = Grid /\ dt = 0
    /\ answer = "AttributeError"

(***************************************************************************)
(* C13: All(...) and Any(...) of periods construct a composite only from a *)
(* non-empty argument list whose every argument is a TimePeriod; an empty  *)
(* list or a non-period argument is rejected and no composite is produced. *)
(***************************************************************************)
C13_ConstructionRejectsInvalid ==
    (op \in {"All.__init__", "Any.__init__"} /\ answer = "constructed") =>
        /\ Len(period.periods) > 0
        /\ \A i \in 1..Len(period.periods) : isinstance_TimePeriod(period.periods[i])

(***************************************************************************)
(* C14: the boundaries of a TimeCycle are the instants at its start        *)
(* element, one in every unit.  Rolling a cycle of n units forward from t  *)
(* returns the interval from t to the n-th boundary strictly after t minus *)
(* one resolution, also when t is itself a boundary; it raises only when   *)
(* the arithmetic leaves the Timestamp range.                              *)
(***************************************************************************)
BoundariesAfter == {b \in (dt + 1)..(dt + period.n * offset) : get_time_element(b) = period.start}

C14_CycleBoundaryRule ==
    (op = "rollforward" /\ period.type = "TimeCycle") =>
        /\ Cardinality(BoundariesAfter) = period.n
        /\ (dt + period.n * offset <= max) => result.ok
        /\ result.ok =>
              /\ result.left = dt
              /\ result.right = SetMax(BoundariesAfter) - resolution
        /\ ~result.ok => result.err = "OutOfBoundsDatetime"

\* a cycle of two units rolled forward from one of its boundaries
C14_Witness ==
    /\ op = "rollforward" /\ period.type = "TimeCycle" /\ period.n = 2
    /\ get_time_element(dt) = period.start
    /\ result.ok /\ result.right = dt + 2 * offset - resolution

(***************************************************************************)
(* C15: an interval returned by All.rollforward(t) is the common part of   *)
(* its members' intervals at some seed s >= t: s is t, or one datetime     *)
(* resolution past the earliest right edge of the attempt that failed      *)
(* before it; at s the members' rollforward intervals overlap pairwise,    *)
(* the left edge returned is the latest of their left edges and the right  *)
(* edge the earliest of their right edges, so the returned interval lies   *)
(* within the interval of every member.  All.rollback mirrors this with    *)
(* seeds s <= t one datetime resolution before the latest left edge.       *)
(***************************************************************************)
RollsAt(s) ==
    [i \in 1..Len(period.periods) |->
        IF op = "rollforward" THEN rollforward(period.periods[i], s)
        ELSE rollback(period.periods[i], s)]

Overlapping(ivs) ==
    /\ AllOk(ivs)
    /\ \A i, j \in 1..Len(ivs) : i # j => Interval_overlaps(ivs[i], ivs[j])

\* the seed that follows the failed attempt at s
RetrySeed(s) ==
    IF op = "rollforward" THEN SetMin(ends(RollsAt(s))) + datetime_resolution
    ELSE SetMax(starts(RollsAt(s))) - datetime_resolution

\* the seeds of the attempts made from s on
RECURSIVE Seeds(_)
Seeds(s) ==
    IF AllOk(RollsAt(s)) /\ ~Overlapping(RollsAt(s)) /\ InBounds(RetrySeed(s))
    THEN {s} \cup Seeds(RetrySeed(s))
    ELSE {s}

HasOccurrences(p) == p.type \in {"TimeCycle", "TimeInterval", "StaticInterval"}

Occurs(p, u) ==
    CASE p.type = "TimeCycle" -> TRUE
      [] p.type = "TimeInterval" -> TimeInterval_contains(p, u)
      [] p.type = "StaticInterval" -> p.start <= u /\ u <= p.end
      [] OTHER -> FALSE

Common(u) == \A i \in 1..Len(period.periods) : Occurs(period.periods[i], u)

Failed(s) == AllOk(RollsAt(s)) /\ ~Overlapping(RollsAt(s))

C16_RetryTerminates ==
    (/\ op = "rollforward" /\ period.type = "All" /\ Len(period.periods) > 0
     /\ \A i \in 1..Len(period.periods) : HasOccurrences(period.periods[i])
     /\ \E u \in dt..max : Common(u)) =>
        /\ result.ok
        /\ \A s \in Seeds(dt) : Failed(s) =>
               /\ RetrySeed(s) > s
               /\ \A u \in s..(RetrySeed(s) - 1) : u <= max => ~Common(u)

(***************************************************************************)
(* C17: Any.rollforward(t) merges an occurrence that abuts its span.  When *)
(* the span of the members' intervals at t ends at end and an occurrence   *)
(* of some member begins at end + resolution, the interval returned ends   *)
(* at or after the right edge of that occurrence, not at end.  An          *)
(* occurrence of a TimeCycle or a TimeInterval begins where the time       *)
(* element is the period's start, that of a StaticInterval at its start.   *)
(***************************************************************************)
Begins(p, u) ==
    CASE p.type \in {"TimeCycle", "TimeInterval"} -> get_time_element(u) = p.start
      [] p.type = "StaticInterval" -> u = p.start
      [] OTHER -> FALSE

SpanEnd == SetMax(ends(MemberRolls))

C17_AnyMergesAbutting ==
    (op = "rollforward" /\ period.type = "Any" /\ result.ok) =>
        \A i \in 1..Len(period.periods) :
            LET abutting == rollforward(period.periods[i], SpanEnd + resolution) IN
            (/\ InBounds(SpanEnd + resolution)
             /\ Begins(period.periods[i], SpanEnd + resolution)
             /\ abutting.ok) =>
                result.right >= abutting.right

====
